---- MODULE Spec2Model ----
(***************************************************************************)
(* Model of claude_swarm_mcp_server.py: the agent registry, its JSON       *)
(* snapshot, the transfer relation, the session state and the tool         *)
(* dispatcher.                                                             *)
(*                                                                         *)
(* A Python dict is a sequence of [key, ...] entries (insertion order).    *)
(* A transfer function is the name of the agent its closure returns.       *)
(***************************************************************************)
EXTENDS Integers, Sequences, FiniteSets, TLC

\* Python None, and "key not in the arguments dict".
None == "<None>"
Absent == "<absent>"

\* Python truthiness of an optional string.
Truthy(x) == x \notin {None, Absent, ""}

\* ------------------------------------------------------------------ bounds
\* A chat request is only issued while the transcript is shorter than this.
MaxHistory == 2

\* ------------------------------------------------------- program constants
DefaultModel == "claude-3-5-sonnet-20241022"
DefaultCompany == "Investment Firm"
DesignatedRole == "Risk_Analyst"

\* team_specs, in the order the dict literal lists the roles.
TeamRoles == <<"Risk_Analyst", "Portfolio_Manager", "Data_Analyst", "Research_Analyst">>

\* The f-string of a role's instructions, templated on the company name.
TeamInstructions(role, company_name) ==
    IF company_name = DefaultCompany
    THEN [Risk_Analyst |-> "risk analyst for Investment Firm",
          Portfolio_Manager |-> "portfolio manager for Investment Firm",
          Data_Analyst |-> "data analyst for Investment Firm",
          Research_Analyst |-> "research analyst for Investment Firm"][role]
    ELSE [Risk_Analyst |-> "risk analyst for Acme",
          Portfolio_Manager |-> "portfolio manager for Acme",
          Data_Analyst |-> "data analyst for Acme",
          Research_Analyst |-> "research analyst for Acme"][role]

\* ------------------------------------------------------------- dict helpers
Keys(d) == [i \in 1..Len(d) |-> d[i].key]
KeySet(d) == {d[i].key : i \in 1..Len(d)}
HasKey(d, k) == k \in KeySet(d)
IndexOf(d, k) == CHOOSE i \in 1..Len(d) : d[i].key = k
Lookup(d, k) == d[IndexOf(d, k)]

\* d[k] = v : replaces the value of an existing key in place, else appends.
DictSet(d, k, e) ==
    IF HasKey(d, k) THEN [d EXCEPT ![IndexOf(d, k)] = e] ELSE Append(d, e)

\* ClaudeAgent(name=..., model=..., instructions=..., functions=[])
ClaudeAgent(name, model, instructions) ==
    [name |-> name, model |-> model, instructions |-> instructions, functions |-> <<>>]

\* ------------------------------------------------------- relation builder
RECURSIVE TransferTargets(_, _)
\* The transfer functions appended to the agent stored under key `source`:
\* one per other key, in registry order, each returning that key's agent.
TransferTargets(ags, source) ==
    IF ags = <<>> THEN <<>>
    ELSE IF Head(ags).key # source
         THEN <<Head(ags).agent.name>> \o TransferTargets(Tail(ags), source)
         ELSE TransferTargets(Tail(ags), source)

setup_transfer_functions(ags) ==
    [i \in 1..Len(ags) |->
        [key |-> ags[i].key,
         agent |-> [ags[i].agent EXCEPT !.functions = TransferTargets(ags, ags[i].key)]]]

\* -------------------------------------------------------------- persistence
\* AGENTS_FILE is missing, holds text json.load rejects, or holds a JSON
\* object: a sequence of [key, data] with data.name/.model/.instructions,
\* a field being Absent when the entry lacks it.
MissingFile == [kind |-> "missing", entries |-> <<>>]
GarbageFile == [kind |-> "garbage", entries |-> <<>>]
JsonFile(entries) == [kind |-> "json", entries |-> entries]

\* save_agents writing the default model instead of agent.model.
save_agents_DefaultModel(ags) ==
    JsonFile([i \in 1..Len(ags) |->
        [key |-> ags[i].key,
         data |-> [name |-> ags[i].agent.name,
                   model |-> DefaultModel,
                   instructions |-> ags[i].agent.instructions]]])

\* save_agents: the snapshot written for a registry (functions are left out).
save_agents(ags) ==
    JsonFile([i \in 1..Len(ags) |->
        [key |-> ags[i].key,
         data |-> [name |-> ags[i].agent.name,
                   model |-> ags[i].agent.model,
                   instructions |-> ags[i].agent.instructions]]])

\* data["name"], data["model"], data["instructions"] all succeed.
EntryComplete(e) ==
    /\ e.data.name # Absent
    /\ e.data.model # Absent
    /\ e.data.instructions # Absent

RECURSIVE LoadEntries(_, _)
\* The for loop of load_agents: registers entries in file order until one
\* raises KeyError; yields the registry so far and whether it raised.
LoadEntries(ags, entries) ==
    IF entries = <<>> THEN [agents |-> ags, raised |-> FALSE]
    ELSE IF ~EntryComplete(Head(entries)) THEN [agents |-> ags, raised |-> TRUE]
    ELSE LoadEntries(
            DictSet(ags, Head(entries).key,
                    [key |-> Head(entries).key,
                     agent |-> ClaudeAgent(Head(entries).data.name,
                                           Head(entries).data.model,
                                           Head(entries).data.instructions)]),
            Tail(entries))

\* load_agents on registry `ags` and active agent `cur`.
load_agents(file, ags, cur) ==
    IF file.kind # "json" THEN [agents |-> ags, current_agent |-> cur]
    ELSE LET r == LoadEntries(ags, file.entries) IN
         IF r.raised THEN [agents |-> r.agents, current_agent |-> cur]
         ELSE [agents |-> setup_transfer_functions(r.agents),
               current_agent |-> IF r.agents # <<>> /\ ~Truthy(cur)
                                 THEN r.agents[1].key ELSE cur]

\* ------------------------------------------------------------ tool results
\* A handler's text: ok is FALSE when it starts with the failure marker.
Ok(msg) == [ok |-> TRUE, msg |-> msg]
Fail(msg) == [ok |-> FALSE, msg |-> msg]

\* What a handler did: the globals afterwards, whether it raised, the text it
\* returned, its calls of swarm_client.run and its created_agents list.
Outcome(s, text) ==
    [state |-> s, raised |-> FALSE, text |-> text, calls |-> <<>>, created |-> <<>>]
Raised(s) ==
    [state |-> s, raised |-> TRUE, text |-> Fail("raised"), calls |-> <<>>, created |-> <<>>]

\* args.get(k, default)
Get(args, k, default) == IF args[k] = Absent THEN default ELSE args[k]

\* --------------------------------------------------------------- create_agent
\* create_agent_handler without the `name in agents` check.
create_agent_handler_Overwrites(s, args) ==
    LET name == Get(args, "name", "")
        instructions == Get(args, "instructions", "")
        model == Get(args, "model", DefaultModel)
    IN  IF name = "" \/ instructions = ""
        THEN Outcome(s, Fail("Name and instructions required"))
        ELSE LET ags == setup_transfer_functions(
                            DictSet(s.agents, name,
                                    [key |-> name,
                                     agent |-> ClaudeAgent(name, model, instructions)]))
                 cur == IF ~Truthy(s.current_agent) THEN name ELSE s.current_agent
             IN  Outcome([s EXCEPT !.agents = ags,
                                   !.current_agent = cur,
                                   !.file = save_agents(ags)],
                         Ok("Created Swarm agent"))

create_agent_handler(s, args) ==
    LET name == Get(args, "name", "")
        instructions == Get(args, "instructions", "")
        model == Get(args, "model", DefaultModel)
    IN  IF name = "" \/ instructions = ""
        THEN Outcome(s, Fail("Name and instructions required"))
        ELSE IF HasKey(s.agents, name)
        THEN Outcome(s, Fail("Agent already exists"))
        ELSE LET ags == setup_transfer_functions(
                            DictSet(s.agents, name,
                                    [key |-> name,
                                     agent |-> ClaudeAgent(name, model, instructions)]))
                 cur == IF ~Truthy(s.current_agent) THEN name ELSE s.current_agent
             IN  Outcome([s EXCEPT !.agents = ags,
                                   !.current_agent = cur,
                                   !.file = save_agents(ags)],
                         Ok("Created Swarm agent"))
\* ------------------------------------------------------------ chat_with_swarm
UserMessage(message) == [role |-> "user", content |-> message]
AssistantMessage(content) == [role |-> "assistant", content |-> content]

\* StartingAgentName falling back to the active agent for an unknown name.
StartingAgentName_FallsBackToActive(s, args) ==
    LET starting_agent_name == Get(args, "agent_name", s.current_agent)
    IN  IF Truthy(starting_agent_name) /\ HasKey(s.agents, starting_agent_name)
        THEN starting_agent_name
        ELSE IF Truthy(s.current_agent) /\ HasKey(s.agents, s.current_agent)
        THEN s.current_agent
        ELSE s.agents[1].key

\* The name of the agent the chat starts with (registry not empty).
StartingAgentName(s, args) ==
    LET starting_agent_name == Get(args, "agent_name", s.current_agent)
    IN  IF Truthy(starting_agent_name) /\ HasKey(s.agents, starting_agent_name)
        THEN starting_agent_name
        ELSE s.agents[1].key

\* context_variables = other
DictUpdate_Replaces(ctx, other) == other

\* context_variables.update(other)
DictUpdate(ctx, other) ==
    [k \in DOMAIN ctx \cup DOMAIN other |-> IF k \in DOMAIN other THEN other[k] ELSE ctx[k]]

\* The arguments of swarm_client.run(agent=, messages=, context_variables=).
SwarmCall(s, args) ==
    [agent |-> Lookup(s.agents, StartingAgentName(s, args)).agent,
     messages |-> Append(s.conversation_history, UserMessage(Get(args, "message", ""))),
     context_variables |-> s.context_variables]

\* chat_with_swarm_handler appending the user message before its checks.
chat_with_swarm_handler_AppendsFirst(s, args, run) ==
    LET message == Get(args, "message", "")
        appended == [s EXCEPT !.conversation_history =
                                 Append(s.conversation_history, UserMessage(message))]
    IN  IF message = ""
        THEN Outcome(appended, Fail("Message is required"))
        ELSE IF s.agents = <<>>
        THEN Outcome(appended, Fail("No agents available"))
        ELSE LET call == SwarmCall(s, args)
             IN  IF run.raises
                 THEN [Outcome(appended, Fail("Swarm error")) EXCEPT !.calls = <<call>>]
                 ELSE [Outcome([appended EXCEPT
                                   !.conversation_history = run.messages,
                                   !.current_agent = run.agent,
                                   !.context_variables =
                                       DictUpdate(s.context_variables, run.context_variables)],
                               Ok("Swarm reply"))
                         EXCEPT !.calls = <<call>>]

\* `run` is what swarm_client.run did: it raised, or returned a response with
\* .messages, .agent (here its name) and .context_variables.
chat_with_swarm_handler(s, args, run) ==
    LET message == Get(args, "message", "")
    IN  IF message = ""
        THEN Outcome(s, Fail("Message is required"))
        ELSE IF s.agents = <<>>
        THEN Outcome(s, Fail("No agents available"))
        ELSE LET call == SwarmCall(s, args)
                 appended == [s EXCEPT !.conversation_history = call.messages]
             IN  IF run.raises
                 THEN [Outcome(appended, Fail("Swarm error")) EXCEPT !.calls = <<call>>]
                 ELSE [Outcome([appended EXCEPT
                                   !.conversation_history = run.messages,
                                   !.current_agent = run.agent,
                                   !.context_variables =
                                       DictUpdate(s.context_variables, run.context_variables)],
                               Ok("Swarm reply"))
                         EXCEPT !.calls = <<call>>]

\* ------------------------------------------------------- create_finance_team
RECURSIVE CreateTeam(_, _, _)
\* The loop over team_specs: registers each role whose name is not a key yet.
CreateTeam(ags, roles, company_name) ==
    IF roles = <<>> THEN [agents |-> ags, created_agents |-> <<>>]
    ELSE IF HasKey(ags, Head(roles))
    THEN CreateTeam(ags, Tail(roles), company_name)
    ELSE LET rest == CreateTeam(
                        DictSet(ags, Head(roles),
                                [key |-> Head(roles),
                                 agent |-> ClaudeAgent(Head(roles), DefaultModel,
                                              TeamInstructions(Head(roles), company_name))]),
                        Tail(roles), company_name)
         IN  [agents |-> rest.agents, created_agents |-> <<Head(roles)>> \o rest.created_agents]

\* create_finance_team_handler setting the active agent unconditionally.
create_finance_team_handler_AlwaysActivates(s, args) ==
    LET company_name == Get(args, "company_name", DefaultCompany)
        team == CreateTeam(s.agents, TeamRoles, company_name)
    IN  IF team.created_agents # <<>>
        THEN LET ags == setup_transfer_functions(team.agents)
             IN  [Outcome([s EXCEPT !.agents = ags,
                                    !.current_agent = DesignatedRole,
                                    !.file = save_agents(ags)],
                          Ok("Created agents with transfer capabilities"))
                    EXCEPT !.created = team.created_agents]
        ELSE Outcome([s EXCEPT !.current_agent = DesignatedRole], Ok("Team already exists"))

create_finance_team_handler(s, args) ==
    LET company_name == Get(args, "company_name", DefaultCompany)
        team == CreateTeam(s.agents, TeamRoles, company_name)
    IN  IF team.created_agents # <<>>
        THEN LET ags == setup_transfer_functions(team.agents)
             IN  [Outcome([s EXCEPT !.agents = ags,
                                    !.current_agent = DesignatedRole,
                                    !.file = save_agents(ags)],
                          Ok("Created agents with transfer capabilities"))
                    EXCEPT !.created = team.created_agents]
        ELSE Outcome(s, Ok("Team already exists"))

\* -------------------------------------------------- get_conversation_history
\* conversation_history[-5:]
LastFive(h) == SubSeq(h, IF Len(h) > 5 THEN Len(h) - 4 ELSE 1, Len(h))

\* msg.get("content", "")[:100] raises TypeError when the content is None.
get_conversation_history_handler(s) ==
    IF s.conversation_history = <<>>
    THEN Outcome(s, Ok("No conversation history yet"))
    ELSE IF \E i \in 1..Len(LastFive(s.conversation_history)) :
                LastFive(s.conversation_history)[i].content = None
    THEN Raised(s)
    ELSE Outcome(s, Ok("Swarm Conversation State"))

\* ------------------------------------------------------------------ dispatch
ToolNames == {"create_agent", "chat_with_swarm", "create_finance_team",
              "get_conversation_history", "list_agents"}

\* The branch of call_tool for `name`.
Handle(name, s, args, run) ==
    CASE name = "create_agent" -> create_agent_handler(s, args)
      [] name = "chat_with_swarm" -> chat_with_swarm_handler(s, args, run)
      [] name = "create_finance_team" -> create_finance_team_handler(s, args)
      [] name = "get_conversation_history" -> get_conversation_history_handler(s)
      [] name = "list_agents" ->
            IF s.agents = <<>> THEN Outcome(s, Ok("No Swarm agents found"))
            ELSE Outcome(s, Ok("Swarm Agents"))
      [] OTHER -> Outcome(s, Fail("Unknown tool"))

\* call_tool without its try/except: a handler's exception leaves it.
call_tool_NoExcept(name, s, args, run) ==
    LET out == Handle(name, s, args, run)
    IN  [state |-> out.state,
         calls |-> out.calls,
         created |-> out.created,
         raised |-> out.raised,
         fault |-> out.raised,
         response |-> IF out.raised
                      THEN <<>>
                      ELSE <<[type |-> "text", text |-> out.text]>>]

\* call_tool: the handler's text, or the text of the except branch, as a
\* list of one text content; `fault` is an exception leaving call_tool.
call_tool(name, s, args, run) ==
    LET out == Handle(name, s, args, run)
    IN  [state |-> out.state,
         calls |-> out.calls,
         created |-> out.created,
         raised |-> out.raised,
         fault |-> FALSE,
         response |-> IF out.raised
                      THEN <<[type |-> "text", text |-> Fail("Error in")]>>
                      ELSE <<[type |-> "text", text |-> out.text]>>]
\* ------------------------------------------------------------- environment
\* Agent names, models and instructions requests and files are drawn from.
CustomNames == {"A", "B"}
CustomModels == {"m2"}
CustomInstructions == {"i1"}
Companies == {"Acme"}
Messages == {"hi"}

EmptyCtx == [k \in {} |-> 0]
\* response.context_variables: one key with a new value, or two keys.
ReplyContexts == {[k \in {"k1"} |-> 2], [k \in {"k1", "k2"} |-> 1]}

NoArgs ==
    [name |-> Absent, instructions |-> Absent, model |-> Absent,
     message |-> Absent, agent_name |-> Absent, company_name |-> Absent]

CreateAgentArgs ==
    {[NoArgs EXCEPT !.name = n, !.instructions = i] :
        n \in CustomNames \cup {""}, i \in CustomInstructions \cup {Absent}}
    \cup {[NoArgs EXCEPT !.name = "A", !.instructions = i, !.model = m] :
            i \in CustomInstructions, m \in CustomModels}

ChatArgs ==
    {[NoArgs EXCEPT !.message = m, !.agent_name = a] :
        m \in Messages \cup {""},
        a \in {Absent, "A", "Zed"}}

FinanceTeamArgs == {[NoArgs EXCEPT !.company_name = c] : c \in Companies \cup {Absent}}

\* The agents a run can end on: the starting agent, or one a chain of
\* transfer functions returns.
RECURSIVE TransferClosure(_, _, _)
TransferClosure(ags, names, n) ==
    IF n = 0 THEN names
    ELSE TransferClosure(ags,
            names \cup UNION {{ags[i].agent.functions[j] :
                                  j \in 1..Len(ags[i].agent.functions)} :
                               i \in {x \in 1..Len(ags) : ags[x].agent.name \in names}},
            n - 1)

NoRun == [raises |-> TRUE, messages |-> <<>>, agent |-> None, context_variables |-> EmptyCtx]

\* What swarm_client.run may do with a call: raise, or return a response.
SwarmRuns(ags, call) ==
    {NoRun} \cup
    {[raises |-> FALSE, messages |-> m, agent |-> a, context_variables |-> c] :
        m \in {Append(call.messages, AssistantMessage("re")), <<AssistantMessage(None)>>},
        a \in TransferClosure(ags, {call.agent.name}, Len(ags)),
        c \in ReplyContexts}

\* Snapshots found at startup: up to MaxFileEntries entries with distinct
\* keys, each complete or lacking one of its fields.
MaxFileEntries == 3
FileKeys == CustomNames \cup {DesignatedRole}
FileEntriesOf(k) ==
    LET full == [name |-> k, model |-> DefaultModel, instructions |-> "i1"]
    IN  {[key |-> k, data |-> d] :
            d \in {full, [full EXCEPT !.name = Absent], [full EXCEPT !.model = Absent],
                    [full EXCEPT !.instructions = Absent]}}
InitialFiles ==
    {MissingFile, GarbageFile} \cup
    {JsonFile(es) :
        es \in {q \in UNION {[1..n -> UNION {FileEntriesOf(k) : k \in FileKeys}] :
                                n \in 0..MaxFileEntries} :
                    \A i, j \in 1..Len(q) : i # j => q[i].key # q[j].key}}

\* ------------------------------------------------------------------- state
VARIABLES agents, current_agent, conversation_history, context_variables,
          AGENTS_FILE, pc, last

vars == <<agents, current_agent, conversation_history, context_variables,
          AGENTS_FILE, pc, last>>

\* The module globals as one value.
State ==
    [agents |-> agents, current_agent |-> current_agent,
     conversation_history |-> conversation_history,
     context_variables |-> context_variables, file |-> AGENTS_FILE]

\* The request call_tool is answering: its arguments, what the handler did
\* and the content list returned for it.
Step(tool, args, r, run) ==
    [tool |-> tool, args |-> args, response |-> r.response, fault |-> r.fault,
     raised |-> r.raised, calls |-> r.calls,
     run |-> IF r.calls = <<>> THEN <<>> ELSE <<run>>, created |-> r.created]

NoStep(tool) ==
    [tool |-> tool, args |-> NoArgs, response |-> <<>>, fault |-> FALSE,
     raised |-> FALSE, calls |-> <<>>, run |-> <<>>, created |-> <<>>]

\* Module import: the globals of lines 25-29, the file as found on disk.
Init ==
    /\ agents = <<>>
    /\ current_agent = None
    /\ conversation_history = <<>>
    /\ context_variables = EmptyCtx
    /\ AGENTS_FILE \in InitialFiles
    /\ pc = "start"
    /\ last = NoStep("import")

\* main(): load_agents(), then the server waits for requests.
Main ==
    /\ pc = "start"
    /\ LET r == load_agents(AGENTS_FILE, agents, current_agent)
       IN  /\ agents' = r.agents
           /\ current_agent' = r.current_agent
    /\ pc' = "idle"
    /\ last' = NoStep("main")
    /\ UNCHANGED <<conversation_history, context_variables, AGENTS_FILE>>

\* One request through call_tool.
Dispatch(name, args, run) ==
    /\ pc = "idle"
    /\ LET r == call_tool(name, State, args, run)
       IN  /\ agents' = r.state.agents
           /\ current_agent' = r.state.current_agent
           /\ conversation_history' = r.state.conversation_history
           /\ context_variables' = r.state.context_variables
           /\ AGENTS_FILE' = r.state.file
           /\ last' = Step(name, args, r, run)
    /\ pc' = "replying"

CreateAgent == \E args \in CreateAgentArgs : Dispatch("create_agent", args, NoRun)

ChatWithSwarm ==
    /\ Len(conversation_history) < MaxHistory
    /\ \E args \in ChatArgs :
         \E run \in IF Get(args, "message", "") # "" /\ agents # <<>>
                     THEN SwarmRuns(agents, SwarmCall(State, args))
                     ELSE {NoRun} :
            Dispatch("chat_with_swarm", args, run)

CreateFinanceTeam ==
    \E args \in FinanceTeamArgs : Dispatch("create_finance_team", args, NoRun)

GetConversationHistory == Dispatch("get_conversation_history", NoArgs, NoRun)

ListAgents == Dispatch("list_agents", NoArgs, NoRun)

UnknownTool == Dispatch("delete_agent", NoArgs, NoRun)

\* call_tool's return value goes back to the client; the server waits for
\* the next request.
SendResponse ==
    /\ pc = "replying"
    /\ pc' = "idle"
    /\ last' = NoStep("idle")
    /\ UNCHANGED <<agents, current_agent, conversation_history, context_variables,
                   AGENTS_FILE>>

\* The process ends and a new one is started: the globals are those of a
\* fresh import, the file is what the old process left.
Restart ==
    /\ pc = "idle"
    /\ agents' = <<>>
    /\ current_agent' = None
    /\ conversation_history' = <<>>
    /\ context_variables' = EmptyCtx
    /\ pc' = "start"
    /\ last' = NoStep("import")
    /\ UNCHANGED AGENTS_FILE

Next ==
    \/ Main
    \/ CreateAgent
    \/ ChatWithSwarm
    \/ CreateFinanceTeam
    \/ GetConversationHistory
    \/ ListAgents
    \/ UnknownTool
    \/ SendResponse
    \/ Restart

Spec == Init /\ [][Next]_vars
\* =================================================================== claims
\* A step that answers a request for `tool` (the primed `last` describes it).
Answers(tool) == pc = "idle" /\ pc' = "replying" /\ last'.tool = tool

\* The request being answered is for `tool`.
Answered(tool) == pc = "replying" /\ last.tool = tool

\* The keys of the registry other than k, in registry order.
OtherKeys(ags, k) == SelectSeq(Keys(ags), LAMBDA x : x # k)

\* Every agent's transfer targets are exactly the other registered names.
RelationsComplete(ags) ==
    \A i \in 1..Len(ags) : ags[i].agent.functions = OtherKeys(ags, ags[i].key)

SessionUnchanged ==
    /\ conversation_history' = conversation_history
    /\ current_agent' = current_agent
    /\ context_variables' = context_variables

\* C1 (as claimed): when swarm_client.run raises during chat_with_swarm, the
\* transcript, the active agent and the context values are all as they were
\* before the request, and a failure text is returned.
C1_FailedRunLeavesSession ==
    [][(Answers("chat_with_swarm") /\ last'.run # <<>> /\ last'.run[1].raises)
          => /\ SessionUnchanged
             /\ ~last'.response[1].text.ok]_vars

\* C2 (as claimed): in every reachable state every registered agent's
\* transfer targets are exactly the names of all other registered agents, in
\* registry order, without itself.
C2_TransferTargetsComplete == RelationsComplete(agents)

\* C3 (as claimed): the starting agent handed to swarm_client.run is the given
\* agent_name if registered, otherwise the current active agent, and the
\* first registered agent only if there is no active agent.
C3_StartingAgentAsClaimed ==
    [][(Answers("chat_with_swarm") /\ last'.calls # <<>>)
          => last'.calls[1].agent.name =
                IF last'.args.agent_name # Absent /\ HasKey(agents, last'.args.agent_name)
                THEN last'.args.agent_name
                ELSE IF Truthy(current_agent) THEN current_agent
                ELSE agents[1].key]_vars

\* C3 (amended): the starting agent handed to swarm_client.run is the given
\* agent_name if registered; the current active agent if agent_name is absent
\* and an active agent is set; in every other case (agent_name given but not
\* registered, or no active agent) the first registered agent. It is handed
\* over as the registry holds it.
C3_StartingAgent ==
    [][(Answers("chat_with_swarm") /\ last'.calls # <<>>)
          => /\ last'.calls[1].agent.name =
                    IF last'.args.agent_name # Absent
                    THEN IF HasKey(agents, last'.args.agent_name)
                         THEN last'.args.agent_name
                         ELSE agents[1].key
                    ELSE IF Truthy(current_agent) /\ HasKey(agents, current_agent)
                         THEN current_agent
                         ELSE agents[1].key
             /\ \E i \in 1..Len(agents) : agents[i].agent = last'.calls[1].agent]_vars

\* C3 witness: a chat whose agent_name is not registered started with the
\* first registered agent although another agent was the active one (the run
\* raised, so the active agent is still the one before the request).
C3_Witness ==
    /\ Answered("chat_with_swarm")
    /\ last.args.agent_name = "Zed"
    /\ last.calls # <<>>
    /\ last.run[1].raises
    /\ Truthy(current_agent)
    /\ current_agent # agents[1].key
    /\ last.calls[1].agent.name = agents[1].key

\* C4 (as claimed): in every reachable state the active agent names a
\* registered agent whenever the registry is not empty, and is empty only
\* while the registry is empty.
C4_ActiveAgentRegistered ==
    IF agents = <<>> THEN current_agent = None ELSE HasKey(agents, current_agent)

\* C5: chat_with_swarm with an empty message or on an empty registry returns
\* a failure text, does not call swarm_client.run and leaves the transcript,
\* the active agent and the context values as they were; on an empty registry
\* the transcript is empty afterwards.
C5_ChatFailsFast ==
    [][(/\ Answers("chat_with_swarm")
        /\ (Get(last'.args, "message", "") = "" \/ agents = <<>>))
          => /\ ~last'.response[1].text.ok
             /\ last'.calls = <<>>
             /\ SessionUnchanged
             /\ (agents = <<>> => conversation_history' = <<>>)]_vars

\* C5 witness: an empty message was refused while agents and a transcript
\* existed.
C5_Witness ==
    /\ Answered("chat_with_swarm")
    /\ last.args.message = ""
    /\ agents # <<>>
    /\ conversation_history # <<>>
    /\ ~last.response[1].text.ok
    /\ last.calls = <<>>
\* The name, model and instructions of a registry entry.
Triple(e) == <<e.agent.name, e.agent.model, e.agent.instructions>>

RegistryUnchanged ==
    /\ agents' = agents
    /\ current_agent' = current_agent
    /\ AGENTS_FILE' = AGENTS_FILE

\* C6 (as claimed): create_agent with a name already in the registry returns
\* the duplicate-name failure and leaves the registry, the active agent and
\* the persisted snapshot as they were.
C6_DuplicateAsClaimed ==
    [][(Answers("create_agent") /\ HasKey(agents, last'.args.name))
          => /\ last'.response[1].text = Fail("Agent already exists")
             /\ RegistryUnchanged]_vars

\* C6 (amended): create_agent with a name already in the registry returns a
\* failure text and leaves the registry, the active agent and the persisted
\* snapshot as they were; the failure is the duplicate-name one when the
\* instructions are not empty, and the name-and-instructions-required one
\* when they are empty or absent.
C6_DuplicateChangesNothing ==
    [][(Answers("create_agent") /\ HasKey(agents, last'.args.name))
          => /\ last'.response[1].text =
                    IF Get(last'.args, "instructions", "") # ""
                    THEN Fail("Agent already exists")
                    ELSE Fail("Name and instructions required")
             /\ RegistryUnchanged]_vars

\* C6 witness: a create_agent naming a registered agent with another model
\* than the registered one was refused as a duplicate.
C6_Witness ==
    /\ Answered("create_agent")
    /\ HasKey(agents, last.args.name)
    /\ last.args.model = "m2"
    /\ Lookup(agents, last.args.name).agent.model = DefaultModel
    /\ last.response[1].text = Fail("Agent already exists")

\* The roles of the team that are not registered in ags, in team order.
MissingRoles(ags) == SelectSeq(TeamRoles, LAMBDA r : ~HasKey(ags, r))

\* C7: create_finance_team always reports success and leaves every agent
\* already registered in place with its name, model and instructions; it
\* creates exactly the roles not yet registered, appended in team order with
\* the default model and the company's instructions, so all four roles are
\* registered afterwards (a second call creates none). If it created an agent
\* the relations are rebuilt, the registry is saved and Risk_Analyst is the
\* active agent; if it created none, the registry, the active agent and the
\* persisted snapshot are as they were.
C7_FinanceTeamIdempotent ==
    [][Answers("create_finance_team")
          => LET missing == MissingRoles(agents)
                 company == Get(last'.args, "company_name", DefaultCompany)
             IN  /\ last'.response[1].text.ok
                 /\ last'.created = missing
                 /\ Len(agents') = Len(agents) + Len(missing)
                 /\ \A i \in 1..Len(agents) :
                        /\ agents'[i].key = agents[i].key
                        /\ Triple(agents'[i]) = Triple(agents[i])
                 /\ \A j \in 1..Len(missing) :
                        /\ agents'[Len(agents) + j].key = missing[j]
                        /\ Triple(agents'[Len(agents) + j]) =
                              <<missing[j], DefaultModel, TeamInstructions(missing[j], company)>>
                 /\ \A j \in 1..Len(TeamRoles) : HasKey(agents', TeamRoles[j])
                 /\ IF missing # <<>>
                    THEN /\ RelationsComplete(agents')
                         /\ AGENTS_FILE' = save_agents(agents')
                         /\ current_agent' = DesignatedRole
                    ELSE RegistryUnchanged]_vars

\* C7 witness: a second create_finance_team created nothing and reported
\* success while another agent than Risk_Analyst stayed the active one.
C7_Witness ==
    /\ Answered("create_finance_team")
    /\ last.created = <<>>
    /\ last.response[1].text = Ok("Team already exists")
    /\ \A j \in 1..Len(TeamRoles) : HasKey(agents, TeamRoles[j])
    /\ current_agent = "Portfolio_Manager"

\* C8: a successful chat_with_swarm called swarm_client.run once, with a
\* registered agent, the transcript extended by the user message and the
\* context values of before; afterwards the transcript and the active agent
\* are the returned ones, and the context values are the previous ones
\* overridden and extended by the returned ones.
C8_ChatCommitsResponse ==
    [][(Answers("chat_with_swarm") /\ last'.response[1].text.ok)
          => /\ Len(last'.calls) = 1
             /\ Len(last'.run) = 1
             /\ ~last'.run[1].raises
             /\ \E i \in 1..Len(agents) : agents[i].agent = last'.calls[1].agent
             /\ last'.calls[1].messages =
                    conversation_history \o <<[role |-> "user", content |-> last'.args.message]>>
             /\ last'.calls[1].context_variables = context_variables
             /\ conversation_history' = last'.run[1].messages
             /\ current_agent' = last'.run[1].agent
             /\ DOMAIN context_variables' =
                    DOMAIN context_variables \cup DOMAIN last'.run[1].context_variables
             /\ \A k \in DOMAIN last'.run[1].context_variables :
                    context_variables'[k] = last'.run[1].context_variables[k]
             /\ \A k \in DOMAIN context_variables \ DOMAIN last'.run[1].context_variables :
                    context_variables'[k] = context_variables[k]]_vars

\* C8 witness: a successful chat returned only k1, with a new value, while k2
\* was set: k1 is overridden and k2 kept; the transcript had two messages
\* when the collaborator was called.
C8_Witness ==
    /\ Answered("chat_with_swarm")
    /\ last.response[1].text.ok
    /\ Len(last.calls[1].messages) = 2
    /\ last.calls[1].context_variables = [k \in {"k1", "k2"} |-> 1]
    /\ last.run[1].context_variables = [k \in {"k1"} |-> 2]
    /\ context_variables = [k \in {"k1", "k2"} |-> IF k = "k1" THEN 2 ELSE 1]

\* C9: saving the registry and loading the snapshot into an empty registry
\* gives the same keys in the same order, each key equal to its agent's
\* name, with the same name, model and instructions; the snapshot holds
\* exactly name, model and instructions per key, and the loaded agents'
\* transfer targets are the other loaded names.
C9_SaveLoadRoundTrip ==
    LET snapshot == save_agents(agents)
        loaded == load_agents(snapshot, <<>>, None).agents
    IN  /\ snapshot.kind = "json"
        /\ Len(snapshot.entries) = Len(agents)
        /\ \A i \in 1..Len(snapshot.entries) :
              DOMAIN snapshot.entries[i].data = {"name", "model", "instructions"}
        /\ Len(loaded) = Len(agents)
        /\ \A i \in 1..Len(agents) :
              /\ loaded[i].key = agents[i].key
              /\ loaded[i].key = loaded[i].agent.name
              /\ Triple(loaded[i]) = Triple(agents[i])
        /\ RelationsComplete(loaded)

\* C9 witness: a restarted process has just loaded the snapshot the previous
\* one saved: several agents, one with a model of its own.
C9_Witness ==
    /\ pc = "idle"
    /\ last.tool = "main"
    /\ Len(agents) >= 3
    /\ \E i \in 1..Len(agents) : agents[i].agent.model = "m2"
    /\ conversation_history = <<>>
    /\ AGENTS_FILE = save_agents(agents)
    /\ load_agents(AGENTS_FILE, <<>>, None).agents = agents

\* C10: every request is answered with a list of exactly one text content
\* and no exception leaves call_tool; a handler's exception is answered with
\* the failure text of the except branch; an unknown tool name is answered
\* with the unknown-tool failure text, the registry, the session and the
\* file staying as they were.
C10_DispatchNeverFaults ==
    [][(pc = "idle" /\ pc' = "replying")
          => /\ ~last'.fault
             /\ Len(last'.response) = 1
             /\ last'.response[1].type = "text"
             /\ (last'.raised => last'.response[1].text = Fail("Error in"))
             /\ (last'.tool \notin ToolNames
                    => /\ last'.response[1].text = Fail("Unknown tool")
                       /\ RegistryUnchanged
                       /\ SessionUnchanged)]_vars

\* C10 witness: get_conversation_history raised on a message without text
\* content and the request was answered with a failure text.
C10_Witness ==
    /\ Answered("get_conversation_history")
    /\ last.raised
    /\ ~last.fault
    /\ last.response = <<[type |-> "text", text |-> Fail("Error in")]>>

\* ============================================== save_agents, step by step
\* The file while save_agents is writing it: open(AGENTS_FILE, 'w') has
\* emptied it and json.dump has written the first entries of the snapshot.
\* json.load rejects it, as it rejects GarbageFile.
PartialFile(entries) == [kind |-> "truncated", entries |-> entries]

\* The handler went through its save_agents() call.
CallsSave(r) ==
    r.response[1].text \in {Ok("Created Swarm agent"),
                            Ok("Created agents with transfer capabilities")}

\* A request through call_tool, up to the handler's save_agents() call if it
\* makes one: the globals are already updated, the file is not yet opened.
DispatchToSave(name, args, run) ==
    /\ pc = "idle"
    /\ LET r == call_tool(name, State, args, run)
       IN  /\ agents' = r.state.agents
           /\ current_agent' = r.state.current_agent
           /\ conversation_history' = r.state.conversation_history
           /\ context_variables' = r.state.context_variables
           /\ last' = Step(name, args, r, run)
           /\ pc' = IF CallsSave(r) THEN "save_open" ELSE "replying"
    /\ UNCHANGED AGENTS_FILE

CreateAgentToSave ==
    \E args \in CreateAgentArgs : DispatchToSave("create_agent", args, NoRun)

ChatWithSwarmToSave ==
    /\ Len(conversation_history) < MaxHistory
    /\ \E args \in ChatArgs :
         \E run \in IF Get(args, "message", "") # "" /\ agents # <<>>
                     THEN SwarmRuns(agents, SwarmCall(State, args))
                     ELSE {NoRun} :
            DispatchToSave("chat_with_swarm", args, run)

CreateFinanceTeamToSave ==
    \E args \in FinanceTeamArgs : DispatchToSave("create_finance_team", args, NoRun)

GetConversationHistoryToSave == DispatchToSave("get_conversation_history", NoArgs, NoRun)

ListAgentsToSave == DispatchToSave("list_agents", NoArgs, NoRun)

UnknownToolToSave == DispatchToSave("delete_agent", NoArgs, NoRun)

\* open(AGENTS_FILE, 'w'): the file is created or emptied.
SaveOpen ==
    /\ pc = "save_open"
    /\ AGENTS_FILE' = PartialFile(<<>>)
    /\ pc' = "save_dump"
    /\ UNCHANGED <<agents, current_agent, conversation_history, context_variables, last>>

\* json.dump writes the next entry of agent_data through the open file.
SaveDump ==
    /\ pc = "save_dump"
    /\ Len(AGENTS_FILE.entries) < Len(agents)
    /\ AGENTS_FILE' =
          PartialFile(SubSeq(save_agents(agents).entries, 1, Len(AGENTS_FILE.entries) + 1))
    /\ UNCHANGED <<agents, current_agent, conversation_history, context_variables,
                   pc, last>>

\* json.dump writes the closing brace and the with block closes the file;
\* save_agents and the handler return.
SaveClose ==
    /\ pc = "save_dump"
    /\ Len(AGENTS_FILE.entries) = Len(agents)
    /\ AGENTS_FILE' = JsonFile(AGENTS_FILE.entries)
    /\ pc' = "replying"
    /\ UNCHANGED <<agents, current_agent, conversation_history, context_variables, last>>

\* The process is interrupted while save_agents runs and a new one is
\* started: the file is what the write left.
Crash ==
    /\ pc \in {"save_open", "save_dump"}
    /\ agents' = <<>>
    /\ current_agent' = None
    /\ conversation_history' = <<>>
    /\ context_variables' = EmptyCtx
    /\ pc' = "start"
    /\ last' = NoStep("import")
    /\ UNCHANGED AGENTS_FILE

NextSave ==
    \/ Main
    \/ CreateAgentToSave
    \/ ChatWithSwarmToSave
    \/ CreateFinanceTeamToSave
    \/ GetConversationHistoryToSave
    \/ ListAgentsToSave
    \/ UnknownToolToSave
    \/ SaveOpen
    \/ SaveDump
    \/ SaveClose
    \/ Crash
    \/ SendResponse
    \/ Restart

SpecSave == Init /\ [][NextSave]_vars

\* The file holds a snapshot whose every entry has name, model and
\* instructions.
CompleteSnapshot(file) ==
    /\ file.kind = "json"
    /\ \A i \in 1..Len(file.entries) : EntryComplete(file.entries[i])

\* C11 (as claimed): a save replaces the whole file at once: a file holding
\* a complete snapshot changes, if it changes, to the complete snapshot of
\* the registry, at every step of save_agents.
C11_SaveReplacesWholeFile ==
    [][CompleteSnapshot(AGENTS_FILE)
          => \/ AGENTS_FILE' = AGENTS_FILE
             \/ AGENTS_FILE' = save_agents(agents')]_vars

\* C12 (as claimed): load_agents at startup is all-or-nothing: with a
\* missing file, an unparseable file or a snapshot with an entry lacking
\* name, model or instructions the registry is empty afterwards; otherwise
\* the registry holds the snapshot's entries; and whenever agents are
\* registered afterwards, the relations are rebuilt and the first agent is
\* the active one.
C12_LoadAllOrNothing ==
    [][(pc = "start" /\ pc' = "idle")
          => /\ IF CompleteSnapshot(AGENTS_FILE)
                THEN /\ Len(agents') = Len(AGENTS_FILE.entries)
                     /\ \A i \in 1..Len(agents') :
                           /\ agents'[i].key = AGENTS_FILE.entries[i].key
                           /\ Triple(agents'[i]) =
                                 <<AGENTS_FILE.entries[i].data.name,
                                   AGENTS_FILE.entries[i].data.model,
                                   AGENTS_FILE.entries[i].data.instructions>>
                ELSE agents' = <<>>
             /\ (agents' # <<>>
                   => /\ RelationsComplete(agents')
                      /\ current_agent' = agents'[1].key)]_vars
====
